---- MODULE Spec2Model ----
(***************************************************************************)
(* Conway's Game of Life: mechanics.Board (the grid and its step rule) and *)
(* main.Canvas / main.MainWindow (the Qt scene that owns a Board, mirrors  *)
(* it in gui_board and drives it from mouse, button and timer events).     *)
(*                                                                         *)
(* A Python list is a function on 0..n-1.  A subscript l[k] is valid for   *)
(* -n <= k < n, a negative k addressing l[k+n]; any other k raises         *)
(* IndexError.  An assert statement raises AssertionError (the interpreter *)
(* is run as in the repository, without -O).                               *)
(***************************************************************************)
EXTENDS Integers, Sequences, FiniteSets, TLC

\* Bounds of the model.
MaxSide == 3
MaxCells == 9
MaxCellsAnyValue == 4
MaxCanvasCells == 4
MaxPatternSide == 5
MaxControlCells == 2

\* main.py: CELL_SIZE
CELL_SIZE == 6

VARIABLES
    pc,              \* "start" | "idle" | "randomize_board" | "next_state"
    width,           \* Board._width  (= Canvas.width)
    height,          \* Board._height (= Canvas.height)
    state,           \* Board._state
    newState,        \* local newState of Board.next_state
    i,               \* loop variable i of the running Board method
    j,               \* loop variable j of the running Board method
    last,            \* the call or event handled last and how it ended
    gui_board,       \* Canvas.gui_board: the brush of each Cell
    game_paused,     \* Canvas.game_paused
    speed,           \* Canvas.speed, in halves (2 is speed 1.0)
    interval,        \* interval of Canvas.update_timer, in ms
    pause_play_text  \* MainWindow.pause_play_text

vars == <<pc, width, height, state, newState, i, j, last, gui_board,
          game_paused, speed, interval, pause_play_text>>

boardVars == <<width, height, state>>
loopVars == <<newState, i, j>>
canvasVars == <<gui_board, game_paused, speed, interval, pause_play_text>>

----------------------------------------------------------------------------
\* Python lists

PyLen(l) == Cardinality(DOMAIN l)

PyIndexOK(l, k) == -PyLen(l) <= k /\ k < PyLen(l)

PyIdx(l, k) == IF k < 0 THEN k + PyLen(l) ELSE k

PyItem(l, k) == l[PyIdx(l, k)]

\* range(n)
PyRange(n) == 0 .. (n - 1)

\* [ [v] * w for _ in range(h) ]
PyGrid(w, h, v) == [r \in PyRange(h) |-> [c \in PyRange(w) |-> v]]

NoList == PyGrid(0, 0, 0)

\* What a call gave back: how it ended, and the returned value if any.
Outcome(o, r) == [outcome |-> o, ret |-> r]

Event(op, row, col, value, res) ==
    [op |-> op, row |-> row, col |-> col, value |-> value,
     outcome |-> res.outcome, ret |-> res.ret]

NoEvent == Event("none", 0, 0, 0, Outcome("ok", {}))

----------------------------------------------------------------------------
\* mechanics.Board

\* Board_state0 with width and height exchanged:
\* [ [0] * height for _ in range(width) ]
Board_state0_Transposed(w, h) == PyGrid(h, w, 0)

\* Board.__init__
Board_state0(w, h) == PyGrid(w, h, 0)

\* BoundsAssert without its lower bounds: a negative index reaches the list
BoundsAssert_NoLowerBound(w, h, row, col) == row <= h /\ col <= w

\* the assert of get_item, set_item and count_alive_neighbors
BoundsAssert(w, h, row, col) ==
    0 <= row /\ row <= h /\ 0 <= col /\ col <= w

\* Board.get_item
get_item(s, w, h, row, col) ==
    IF ~BoundsAssert(w, h, row, col) THEN Outcome("AssertionError", {})
    ELSE IF ~PyIndexOK(s, row) THEN Outcome("IndexError", {})
    ELSE IF ~PyIndexOK(PyItem(s, row), col) THEN Outcome("IndexError", {})
    ELSE Outcome("ok", {PyItem(PyItem(s, row), col)})

\* StoreItem on a grid built as [[0] * w] * h: every row is the same list
StoreItem_SharedRows(s, row, col, value) ==
    [r \in DOMAIN s |-> [s[r] EXCEPT ![PyIdx(s[r], col)] = value]]

\* self._state[row][col] = value
StoreItem(s, row, col, value) ==
    [s EXCEPT ![PyIdx(s, row)][PyIdx(s[PyIdx(s, row)], col)] = value]

\* Board.set_item: how it ends and the grid it leaves
set_item(s, w, h, row, col, value) ==
    IF ~BoundsAssert(w, h, row, col)
    THEN [outcome |-> "AssertionError", state |-> s]
    ELSE IF ~PyIndexOK(s, row)
    THEN [outcome |-> "IndexError", state |-> s]
    ELSE IF ~PyIndexOK(PyItem(s, row), col)
    THEN [outcome |-> "IndexError", state |-> s]
    ELSE [outcome |-> "ok", state |-> StoreItem(s, row, col, value)]

\* the offsets of the 8 adjacent cells
dr == <<0, 0, 1, 1, 1, -1, -1, -1>>
dc == <<-1, 1, -1, 0, 1, -1, 0, 1>>

\* NeighborInside without its lower bounds: an offset of -1 at row 0 or
\* column 0 subscripts the list with -1
NeighborInside_NoLowerBound(w, h, row, col, k) ==
    row + dr[k] < h /\ col + dc[k] < w

\* the guard of the neighbour loop
NeighborInside(w, h, row, col, k) ==
    /\ row + dr[k] < h /\ row + dr[k] >= 0
    /\ col + dc[k] < w /\ col + dc[k] >= 0

\* one pass of the neighbour loop: what it adds to count
NeighborTerm(s, w, h, row, col, k) ==
    IF NeighborInside(w, h, row, col, k)
    THEN PyItem(PyItem(s, row + dr[k]), col + dc[k])
    ELSE 0

RECURSIVE NeighborLoop(_, _, _, _, _, _)
NeighborLoop(s, w, h, row, col, k) ==
    IF k > Len(dr) THEN 0
    ELSE NeighborTerm(s, w, h, row, col, k)
         + NeighborLoop(s, w, h, row, col, k + 1)

\* Board.count_alive_neighbors
count_alive_neighbors(s, w, h, row, col) ==
    IF ~BoundsAssert(w, h, row, col) THEN Outcome("AssertionError", {})
    ELSE Outcome("ok", {NeighborLoop(s, w, h, row, col, 1)})

Returned(res) == CHOOSE v \in res.ret : TRUE

\* NextCell with "in [2,3]" written "== 3"
NextCell_SurviveOn3Only(s, w, h, r, c) ==
    IF Returned(count_alive_neighbors(s, w, h, r, c)) = 3 THEN 1 ELSE 0

\* NextCell with "in [2,3]" written "<= 3"
NextCell_SurviveUpTo3(s, w, h, r, c) ==
    IF s[r][c] = 1
       /\ Returned(count_alive_neighbors(s, w, h, r, c)) <= 3
    THEN 1
    ELSE IF s[r][c] = 0
            /\ Returned(count_alive_neighbors(s, w, h, r, c)) = 3
    THEN 1
    ELSE 0

\* NextCell with one test for Alive and Dead cells alike: "in [2,3]"
NextCell_SameTestForDead(s, w, h, r, c) ==
    IF Returned(count_alive_neighbors(s, w, h, r, c)) \in {2, 3} THEN 1 ELSE 0

\* the if / elif / else of Board.next_state for cell (r, c)
NextCell(s, w, h, r, c) ==
    IF s[r][c] = 1
       /\ Returned(count_alive_neighbors(s, w, h, r, c)) \in {2, 3}
    THEN 1
    ELSE IF s[r][c] = 0
            /\ Returned(count_alive_neighbors(s, w, h, r, c)) = 3
    THEN 1
    ELSE 0

\* the loop header "for i in range(h): for j in range(w)": is there a cell,
\* the first cell, and the cell after (r, c)
HasCells(w, h) == w > 0 /\ h > 0
IsLastCell(w, h, r, c) == r = h - 1 /\ c = w - 1
NextI(w, r, c) == IF c + 1 < w THEN r ELSE r + 1
NextJ(w, c) == IF c + 1 < w THEN c + 1 ELSE 0

\* Board.next_state as one call: the grid it publishes
RECURSIVE NextStateLoop(_, _, _, _, _, _)
NextStateLoop(s, ns, w, h, r, c) ==
    LET written == [ns EXCEPT ![r][c] = NextCell(s, w, h, r, c)]
    IN  IF IsLastCell(w, h, r, c) THEN written
        ELSE NextStateLoop(s, written, w, h, NextI(w, r, c), NextJ(w, c))

next_state(s, w, h) ==
    IF HasCells(w, h) THEN NextStateLoop(s, s, w, h, 0, 0) ELSE PyGrid(w, h, 0)

----------------------------------------------------------------------------
\* Calls on a Board

CallerValues == {0, 1}
AnyValues == {0, 1, 2}

Sides == 1 .. MaxSide
DegenerateSides == {-1, 0}

BoardSizes ==
    {wh \in (Sides \cup DegenerateSides) \X (Sides \cup DegenerateSides) :
        wh[1] \in Sides /\ wh[2] \in Sides => wh[1] * wh[2] <= MaxCells}

\* The indices a caller passes for a list of n items: the valid ones, and
\* with slack 1 also one below and one above.
TriedIndices(n, slack) == (0 - slack) .. ((IF n > 0 THEN n ELSE 0) - 1 + slack)

Init ==
    /\ pc = "start"
    /\ width = 0
    /\ height = 0
    /\ state = NoList
    /\ newState = NoList
    /\ i = 0
    /\ j = 0
    /\ last = NoEvent
    /\ gui_board = NoList
    /\ game_paused = TRUE
    /\ speed = 2
    /\ interval = 0
    /\ pause_play_text = "Play"

CreateBoard(sizes) ==
    /\ pc = "start"
    /\ \E wh \in sizes :
        /\ width' = wh[1]
        /\ height' = wh[2]
        /\ state' = Board_state0(wh[1], wh[2])
        /\ last' = Event("Board", 0, 0, 0, Outcome("ok", {}))
    /\ pc' = "idle"
    /\ UNCHANGED <<loopVars, canvasVars>>

Board_init == CreateBoard(BoardSizes)

CallGetItem(slack) ==
    /\ pc = "idle"
    /\ \E row \in TriedIndices(height, slack),
          col \in TriedIndices(width, slack) :
        last' = Event("get_item", row, col, 0,
                      get_item(state, width, height, row, col))
    /\ UNCHANGED <<pc, boardVars, loopVars, canvasVars>>

Call_get_item == CallGetItem(0)

CallSetItem(values, slack) ==
    /\ pc = "idle"
    /\ \E row \in TriedIndices(height, slack),
          col \in TriedIndices(width, slack), value \in values :
        LET res == set_item(state, width, height, row, col, value)
        IN  /\ state' = res.state
            /\ last' = Event("set_item", row, col, value,
                             Outcome(res.outcome, {}))
    /\ UNCHANGED <<pc, width, height, loopVars, canvasVars>>

Call_set_item == CallSetItem(CallerValues, 0)

\* Board.randomize_board: the call enters the loops
Call_randomize_board ==
    /\ pc = "idle"
    /\ pc' = IF HasCells(width, height) THEN "randomize_board" ELSE "idle"
    /\ i' = 0
    /\ j' = 0
    /\ last' = Event("randomize_board", 0, 0, 0, Outcome("ok", {}))
    /\ UNCHANGED <<boardVars, newState, canvasVars>>

\* one pass of the inner loop: self._state[i][j] = random.randint(0,1)
Step_randomize_board ==
    /\ pc = "randomize_board"
    /\ \E v \in {0, 1} : state' = [state EXCEPT ![i][j] = v]
    /\ pc' = IF IsLastCell(width, height, i, j) THEN "idle" ELSE pc
    /\ i' = NextI(width, i, j)
    /\ j' = NextJ(width, j)
    /\ UNCHANGED <<width, height, newState, last, canvasVars>>

\* Board.next_state: newState is built as a copy of self._state
Call_next_state ==
    /\ pc = "idle"
    /\ pc' = "next_state"
    /\ newState' = [r \in PyRange(height) |->
                       [c \in PyRange(width) |-> state[r][c]]]
    /\ i' = IF HasCells(width, height) THEN 0 ELSE height
    /\ j' = 0
    /\ last' = Event("next_state", 0, 0, 0, Outcome("ok", {}))
    /\ UNCHANGED <<boardVars, canvasVars>>

\* Step_next_state with newState bound to self._state itself instead of a
\* copy: the write lands in the current grid
Step_next_state_InPlace ==
    /\ pc = "next_state"
    /\ i < height
    /\ state' = [state EXCEPT ![i][j] = NextCell(state, width, height, i, j)]
    /\ newState' = state'
    /\ i' = NextI(width, i, j)
    /\ j' = NextJ(width, j)
    /\ UNCHANGED <<pc, width, height, last, canvasVars>>

\* one pass of the inner loop: the rule writes newState[i][j]
Step_next_state ==
    /\ pc = "next_state"
    /\ i < height
    /\ newState' = [newState EXCEPT ![i][j] = NextCell(state, width, height, i, j)]
    /\ i' = NextI(width, i, j)
    /\ j' = NextJ(width, j)
    /\ UNCHANGED <<pc, boardVars, last, canvasVars>>

\* self._state = newState
Return_next_state ==
    /\ pc = "next_state"
    /\ ~(i < height)
    /\ state' = newState
    /\ newState' = NoList
    /\ pc' = "idle"
    /\ UNCHANGED <<width, height, i, j, last, canvasVars>>

Next ==
    \/ Board_init
    \/ Call_get_item
    \/ Call_set_item
    \/ Call_randomize_board
    \/ Step_randomize_board
    \/ Call_next_state
    \/ Step_next_state
    \/ Return_next_state

Spec == Init /\ [][Next]_vars

----------------------------------------------------------------------------
\* A Board in the hands of any caller: every index one below and one above
\* the valid ones is tried, and set_item is passed values other than 0 and 1.

SmallBoardSizes ==
    {wh \in BoardSizes :
        wh[1] \in Sides /\ wh[2] \in Sides => wh[1] * wh[2] <= MaxCellsAnyValue}

Board_init_small == CreateBoard(SmallBoardSizes)

Try_get_item == CallGetItem(1)

Try_set_item == CallSetItem(AnyValues, 1)

\* Board.count_alive_neighbors called from outside the class
Try_count_alive_neighbors ==
    /\ pc = "idle"
    /\ \E row \in TriedIndices(height, 1), col \in TriedIndices(width, 1) :
        last' = Event("count_alive_neighbors", row, col, 0,
                      count_alive_neighbors(state, width, height, row, col))
    /\ UNCHANGED <<pc, boardVars, loopVars, canvasVars>>

NextCaller ==
    \/ Board_init_small
    \/ Try_get_item
    \/ Try_set_item
    \/ Try_count_alive_neighbors
    \/ Call_randomize_board
    \/ Step_randomize_board
    \/ Call_next_state
    \/ Step_next_state
    \/ Return_next_state

SpecCaller == Init /\ [][NextCaller]_vars

----------------------------------------------------------------------------
\* A Board on which a caller lays out a small pattern with set_item and then
\* lets next_state run, generation after generation.

PatternSides == 4 .. MaxPatternSide

PatternSizes == PatternSides \X PatternSides

\* the cells the caller sets: the 3 x 3 block one cell in from the corner
PatternCells == (1 .. 3) \X (1 .. 3)

Board_init_pattern == CreateBoard(PatternSizes)

\* set_item(row, col, value) on a cell of the pattern, before the first step
Place_cell ==
    /\ pc = "idle"
    /\ last.op \in {"Board", "set_item"}
    /\ \E rc \in PatternCells, value \in CallerValues :
        LET res == set_item(state, width, height, rc[1], rc[2], value)
        IN  /\ state' = res.state
            /\ last' = Event("set_item", rc[1], rc[2], value,
                             Outcome(res.outcome, {}))
    /\ UNCHANGED <<pc, width, height, loopVars, canvasVars>>

NextPattern ==
    \/ Board_init_pattern
    \/ Place_cell
    \/ Call_next_state
    \/ Step_next_state
    \/ Return_next_state

SpecPattern == Init /\ [][NextPattern]_vars

----------------------------------------------------------------------------
\* main.Canvas and main.MainWindow.  Qt runs one handler at a time, to its
\* end or to the exception that leaves it, so a handler is one action and
\* the Board methods it calls run whole within it.  What a handler wrote
\* before its exception stays written.  The speed stays at the 1x that
\* MainWindow.__init__ selects.

\* Cell.__init__ / Cell.kill_cell / Cell.generate_cell: the brush of a Cell
Brush(v) == IF v = 1 THEN "ALIVE_COLOR" ELSE "DEAD_COLOR"

\* Canvas.__init__: the Cells added to the canvas
Canvas_gui0(w, h) == PyGrid(w, h, Brush(0))

\* the loops of randomize_game and update that repaint every Cell from
\* board.get_item
Repaint(s, w, h) ==
    [r \in PyRange(h) |->
        [c \in PyRange(w) |-> Brush(Returned(get_item(s, w, h, r, c)))]]

\* Board.randomize_board as one call: the grids it can leave
randomize_board(w, h) == [PyRange(h) -> [PyRange(w) -> {0, 1}]]

\* row = int(point.x() // CELL_SIZE), col = int(point.y() // CELL_SIZE)
CellIndex(p) == p \div CELL_SIZE

\* one branch of mousePressEvent: repaint gui_board[row][col], then
\* board.set_item(row, col, value)
PressCell(s, g, w, h, row, col, value) ==
    IF ~PyIndexOK(g, row)
    THEN [outcome |-> "IndexError", state |-> s, gui |-> g]
    ELSE IF ~PyIndexOK(PyItem(g, row), col)
    THEN [outcome |-> "IndexError", state |-> s, gui |-> g]
    ELSE LET painted ==
                [g EXCEPT ![PyIdx(g, row)][PyIdx(g[PyIdx(g, row)], col)]
                              = Brush(value)]
             res == set_item(s, w, h, row, col, value)
         IN  [outcome |-> res.outcome, state |-> res.state, gui |-> painted]

\* Canvas.mousePressEvent
mousePressEvent(s, g, w, h, button, x, y) ==
    IF button = "LeftButton"
    THEN PressCell(s, g, w, h, CellIndex(x), CellIndex(y), 1)
    ELSE IF button = "RightButton"
    THEN PressCell(s, g, w, h, CellIndex(x), CellIndex(y), 0)
    ELSE [outcome |-> "ok", state |-> s, gui |-> g]

\* ResetCell with row and column exchanged
ResetCell_Transposed(s, w, h, r, c) == set_item(s, w, h, c, r, 0).state

\* one pass of the loops of reset_game: self.board.set_item(i, j, 0)
ResetCell(s, w, h, r, c) == set_item(s, w, h, r, c, 0).state

RECURSIVE ResetLoop(_, _, _, _, _)
ResetLoop(s, w, h, r, c) ==
    IF IsLastCell(w, h, r, c) THEN ResetCell(s, w, h, r, c)
    ELSE ResetLoop(ResetCell(s, w, h, r, c), w, h, NextI(w, r, c), NextJ(w, c))

\* Canvas.reset_game
reset_game(s, w, h) ==
    [state |-> IF HasCells(w, h) THEN ResetLoop(s, w, h, 0, 0) ELSE s,
     gui |-> PyGrid(w, h, Brush(0))]

\* int(400 / self.speed), the speed held in halves
TimerInterval(sp) == 800 \div sp

\* Canvas.update without its "if self.game_paused: return"
Canvas_update_IgnoresPause(s, g, w, h, paused) ==
    [state |-> next_state(s, w, h), gui |-> Repaint(next_state(s, w, h), w, h)]

\* Canvas.update: the board and the mirror it leaves
Canvas_update(s, g, w, h, paused) ==
    IF paused THEN [state |-> s, gui |-> g]
    ELSE [state |-> next_state(s, w, h),
          gui |-> Repaint(next_state(s, w, h), w, h)]

\* The pixel extents and scene points tried: the first and the last pixel
\* of each cell, and of one cell's width beyond the scene on either side.
Pixels(cells) == {CELL_SIZE * n + d : n \in cells, d \in {0, CELL_SIZE - 1}}

CanvasExtents == Pixels(Sides)

ScenePoints(n) == Pixels(-1 .. n)

MouseButtons == {"LeftButton", "RightButton", "MiddleButton"}

CanvasEvent(op, outcome) == Event(op, 0, 0, 0, Outcome(outcome, {}))

\* MainWindow.__init__: Canvas(CANVAS_HEIGHT, CANVAS_WIDTH), the button
\* texts, and the speed the combo box selects
CreateWindow(maxCells) ==
    /\ pc = "start"
    /\ \E CANVAS_HEIGHT \in CanvasExtents, CANVAS_WIDTH \in CanvasExtents :
        /\ (CANVAS_HEIGHT \div CELL_SIZE) * (CANVAS_WIDTH \div CELL_SIZE)
              <= maxCells
        /\ width' = CANVAS_HEIGHT \div CELL_SIZE
        /\ height' = CANVAS_WIDTH \div CELL_SIZE
        /\ state' = Board_state0(width', height')
        /\ gui_board' = Canvas_gui0(width', height')
    /\ game_paused' = TRUE
    /\ speed' = 2
    /\ interval' = 400
    /\ pause_play_text' = "Play"
    /\ last' = CanvasEvent("MainWindow", "ok")
    /\ pc' = "idle"
    /\ UNCHANGED loopVars

MainWindow_init == CreateWindow(MaxCanvasCells)

Mouse_press ==
    /\ pc = "idle"
    /\ \E button \in MouseButtons,
          x \in ScenePoints(height), y \in ScenePoints(width) :
        LET res == mousePressEvent(state, gui_board, width, height, button, x, y)
        IN  /\ state' = res.state
            /\ gui_board' = res.gui
            /\ last' = CanvasEvent("mousePressEvent", res.outcome)
    /\ UNCHANGED <<pc, width, height, loopVars, game_paused, speed, interval,
                   pause_play_text>>

\* the timeout of update_timer
Timer_update ==
    /\ pc = "idle"
    /\ interval' = TimerInterval(speed)
    /\ LET res == Canvas_update(state, gui_board, width, height, game_paused)
       IN  state' = res.state /\ gui_board' = res.gui
    /\ last' = CanvasEvent("update", "ok")
    /\ UNCHANGED <<pc, width, height, loopVars, game_paused, speed,
                   pause_play_text>>

\* MainWindow.pause_game_button
pause_game_button ==
    /\ pc = "idle"
    /\ game_paused' = ~game_paused
    /\ pause_play_text' = IF pause_play_text = "Pause" THEN "Play" ELSE "Pause"
    /\ last' = CanvasEvent("pause_game_button", "ok")
    /\ UNCHANGED <<pc, boardVars, loopVars, gui_board, speed, interval>>

\* reset_game_button without its last two lines: the button text stays
reset_game_button_KeepsText ==
    /\ pc = "idle"
    /\ LET res == reset_game(state, width, height)
       IN  state' = res.state /\ gui_board' = res.gui
    /\ game_paused' = TRUE
    /\ last' = CanvasEvent("reset_game_button", "ok")
    /\ UNCHANGED <<pc, width, height, loopVars, speed, interval,
                   pause_play_text>>

\* MainWindow.reset_game_button
reset_game_button ==
    /\ pc = "idle"
    /\ LET res == reset_game(state, width, height)
       IN  state' = res.state /\ gui_board' = res.gui
    /\ game_paused' = TRUE
    /\ pause_play_text' = "Play"
    /\ last' = CanvasEvent("reset_game_button", "ok")
    /\ UNCHANGED <<pc, width, height, loopVars, speed, interval>>

\* randomize_game_button without self.canvas.force_pause()
randomize_game_button_NoForcePause ==
    /\ pc = "idle"
    /\ \E grid \in randomize_board(width, height) :
        /\ state' = grid
        /\ gui_board' = Repaint(grid, width, height)
    /\ pause_play_text' = "Play"
    /\ last' = CanvasEvent("randomize_game_button", "ok")
    /\ UNCHANGED <<pc, width, height, loopVars, speed, interval, game_paused>>

\* MainWindow.randomize_game_button
randomize_game_button ==
    /\ pc = "idle"
    /\ \E grid \in randomize_board(width, height) :
        /\ state' = grid
        /\ gui_board' = Repaint(grid, width, height)
    /\ game_paused' = TRUE
    /\ pause_play_text' = "Play"
    /\ last' = CanvasEvent("randomize_game_button", "ok")
    /\ UNCHANGED <<pc, width, height, loopVars, speed, interval>>

NextCanvas ==
    \/ MainWindow_init
    \/ Mouse_press
    \/ Timer_update
    \/ pause_game_button
    \/ reset_game_button
    \/ randomize_game_button

SpecCanvas == Init /\ [][NextCanvas]_vars

----------------------------------------------------------------------------
\* The controls of MainWindow: the three buttons, the speed menu and the
\* timer, on a small canvas.

\* MainWindow.speeds, each text as its characters
speeds ==
    << <<"0", ".", "5", "x">>, <<"1", "x">>, <<"1", ".", "5", "x">>,
       <<"2", "x">>, <<"2", ".", "5", "x">>, <<"3", "x">>, <<"4", "x">>,
       <<"5", "x">> >>

\* str(text)[:-1]
DropLastChar(text) == SubSeq(text, 1, Len(text) - 1)

DecimalDigits == <<"0", "1", "2", "3", "4", "5", "6", "7", "8", "9">>

DigitValue(ch) == (CHOOSE k \in 1 .. Len(DecimalDigits) : DecimalDigits[k] = ch) - 1

RECURSIVE DigitsValue(_)
DigitsValue(chars) ==
    IF chars = <<>> THEN 0
    ELSE 10 * DigitsValue(SubSeq(chars, 1, Len(chars) - 1))
         + DigitValue(chars[Len(chars)])

\* float(chars), in tenths: the digits before the point and the one after
FloatInTenths(chars) ==
    IF \E k \in 1 .. Len(chars) : chars[k] = "."
    THEN LET p == CHOOSE k \in 1 .. Len(chars) : chars[k] = "."
         IN  10 * DigitsValue(SubSeq(chars, 1, p - 1))
             + DigitsValue(SubSeq(chars, p + 1, Len(chars)))
    ELSE 10 * DigitsValue(chars)

\* float(str(text)[:-1]), in the halves that speed is held in
ParseSpeed(text) == FloatInTenths(DropLastChar(text)) \div 5

\* MainWindow.playback_speed_button (with Canvas.change_speed)
playback_speed_button ==
    /\ pc = "idle"
    /\ \E k \in 1 .. Len(speeds) : speed' = ParseSpeed(speeds[k])
    /\ last' = CanvasEvent("playback_speed_button", "ok")
    /\ UNCHANGED <<pc, boardVars, loopVars, gui_board, game_paused, interval,
                   pause_play_text>>

MainWindow_init_small == CreateWindow(MaxControlCells)

NextControls ==
    \/ MainWindow_init_small
    \/ Timer_update
    \/ pause_game_button
    \/ reset_game_button
    \/ randomize_game_button
    \/ playback_speed_button

SpecControls == Init /\ [][NextControls]_vars

----------------------------------------------------------------------------
\* The grid as the claims speak of it

InGrid(r, c) == 0 <= r /\ r < height /\ 0 <= c /\ c < width

GridCells == {rc \in PyRange(height) \X PyRange(width) : TRUE}

\* the Moore neighbourhood of (r, c), cut to the grid
MooreInGrid(r, c) ==
    {rc \in GridCells :
        /\ rc # <<r, c>>
        /\ rc[1] - r \in {-1, 0, 1}
        /\ rc[2] - c \in {-1, 0, 1}}

AliveAround(s, r, c) ==
    Cardinality({rc \in MooreInGrid(r, c) : s[rc[1]][rc[2]] = 1})

\* the transition rule, on the grid s
LivesOn(s, r, c) ==
    \/ s[r][c] = 1 /\ AliveAround(s, r, c) \in {2, 3}
    \/ s[r][c] = 0 /\ AliveAround(s, r, c) = 3

NextGeneration(s) ==
    [r \in PyRange(height) |->
        [c \in PyRange(width) |-> IF LivesOn(s, r, c) THEN 1 ELSE 0]]

\* a transition that is the return of Board.next_state
ReturnsFromStep == pc = "next_state" /\ pc' = "idle"

\* a transition that is a whole call of op
IsCall(op) == pc = "idle" /\ pc' = "idle" /\ last'.op = op

----------------------------------------------------------------------------
\* C1: after one step a cell is Alive exactly when, in the grid before the
\* step, it was Alive with 2 or 3 Alive neighbours or Dead with exactly 3;
\* every other cell is Dead.
C1_StepAppliesRule ==
    [][ReturnsFromStep =>
        \A rc \in GridCells :
            /\ state'[rc[1]][rc[2]] \in {0, 1}
            /\ state'[rc[1]][rc[2]] = 1 <=> LivesOn(state, rc[1], rc[2])]_vars

\* a step about to return with a birth, a survival and a death in it
C1_Witness ==
    /\ pc = "next_state" /\ ~(i < height)
    /\ \E rc \in GridCells : state[rc[1]][rc[2]] = 0 /\ newState[rc[1]][rc[2]] = 1
    /\ \E rc \in GridCells : state[rc[1]][rc[2]] = 1 /\ newState[rc[1]][rc[2]] = 1
    /\ \E rc \in GridCells : state[rc[1]][rc[2]] = 1 /\ newState[rc[1]][rc[2]] = 0

\* C2: for every cell of the grid, corners and edges included,
\* count_alive_neighbors is the number of Alive cells among the Moore
\* neighbours that lie inside the grid, a number from 0 to 8.
C2_CountIsAliveMooreNeighbours ==
    pc # "start" =>
        \A rc \in GridCells :
            /\ count_alive_neighbors(state, width, height, rc[1], rc[2])
                 = Outcome("ok", {AliveAround(state, rc[1], rc[2])})
            /\ AliveAround(state, rc[1], rc[2]) \in 0 .. 8

\* a 3 x 3 grid, all Alive: 8 around the centre, 3 around the corner (0,0)
C2_Witness ==
    /\ pc = "idle" /\ width = 3 /\ height = 3
    /\ \A rc \in GridCells : state[rc[1]][rc[2]] = 1
    /\ count_alive_neighbors(state, width, height, 1, 1) = Outcome("ok", {8})
    /\ count_alive_neighbors(state, width, height, 0, 0) = Outcome("ok", {3})

\* C3: while a step runs the current grid is not written; the writes go to
\* newState, and the grid changes once, at the return, to the complete next
\* generation of the grid the step started from.
C3_StepWritesOnlyTheBuffer ==
    [][pc = "next_state" =>
        \/ pc' = "next_state" /\ state' = state
        \/ /\ pc' = "idle"
           /\ state' = newState
           /\ newState = NextGeneration(state)]_vars

\* in the middle of a step: the buffer differs from the grid both in a cell
\* the loop has written and, by the copy, agrees in the cells still to come
C3_Witness ==
    /\ pc = "next_state" /\ i < height /\ (i > 0 \/ j > 0)
    /\ newState # state
    /\ newState # NextGeneration(state)

\* C4: get_item and set_item at a position outside the grid (one below 0,
\* or at height / width) end in an error, return no value, and leave the
\* grid as it was.
C4_OutOfBoundsFails ==
    [][(IsCall("get_item") \/ IsCall("set_item"))
       /\ ~InGrid(last'.row, last'.col) =>
        /\ last'.outcome \in {"AssertionError", "IndexError"}
        /\ last'.ret = {}
        /\ state' = state]_vars

\* a set_item at row = height: it passed the assert, failed at the
\* subscript, and the Alive cells of the grid are still there
C4_Witness ==
    /\ pc = "idle" /\ HasCells(width, height)
    /\ last.op = "set_item" /\ last.row = height /\ last.col \in PyRange(width)
    /\ last.outcome = "IndexError"
    /\ \E rc \in GridCells : state[rc[1]][rc[2]] = 1

\* C5: after set_item(r, c, v) inside the grid, get_item(r, c) returns v and
\* every other cell holds what it held before.
C5_SetItemWritesOneCell ==
    [][IsCall("set_item") /\ InGrid(last'.row, last'.col) =>
        /\ last'.outcome = "ok"
        /\ get_item(state', width, height, last'.row, last'.col)
             = Outcome("ok", {last'.value})
        /\ DOMAIN state' = DOMAIN state
        /\ \A r \in DOMAIN state :
            /\ DOMAIN state'[r] = DOMAIN state[r]
            /\ \A c \in DOMAIN state[r] :
                <<r, c>> # <<last'.row, last'.col>> => state'[r][c] = state[r][c]]_vars

\* a set_item that stored its value next to cells holding other values
C5_Witness ==
    /\ pc = "idle" /\ last.op = "set_item" /\ last.outcome = "ok"
    /\ state[last.row][last.col] = last.value
    /\ \E rc \in GridCells :
        rc[1] # last.row /\ state[rc[1]][rc[2]] # last.value
    /\ \E rc \in GridCells :
        rc[2] # last.col /\ state[rc[1]][rc[2]] # last.value

\* C6: creating a Board with width <= 0 or height <= 0 fails, and no board
\* with zero rows or zero-length rows comes to exist.
C6_NonPositiveSizeRejected ==
    pc # "start" =>
        /\ width > 0 /\ height > 0
        /\ PyLen(state) > 0
        /\ \A r \in DOMAIN state : PyLen(state[r]) > 0

\* C7: whatever value set_item is passed, every cell of the grid holds
\* Dead (0) or Alive (1).
C7_CellsAreDeadOrAlive ==
    \A r \in DOMAIN state : \A c \in DOMAIN state[r] : state[r][c] \in {0, 1}

\* C8: the game starts paused; a timer tick while paused leaves the grid as
\* it was, and a tick while running advances it by exactly one generation.
C8_PausedTicksDoNotStep ==
    [][/\ last'.op = "MainWindow" => game_paused'
       /\ IsCall("update") =>
            IF game_paused THEN state' = state
            ELSE state' = NextGeneration(state)]_vars

\* a tick has been handled while paused, on a grid that a step would change
C8_Witness ==
    /\ last.op = "update" /\ game_paused
    /\ NextGeneration(state) # state

\* C9: after every handler, completed or failed, gui_board[i][j] shows
\* alive exactly when board.get_item(i, j) is Alive.
C9_MirrorMatchesBoard ==
    pc = "idle" =>
        \A rc \in GridCells :
            gui_board[rc[1]][rc[2]] = "ALIVE_COLOR"
                <=> get_item(state, width, height, rc[1], rc[2]) = Outcome("ok", {1})

\* C10: after clear (the Clear button: Canvas.reset_game) get_item yields
\* Dead for every one of the height x width cells.
C10_ClearLeavesAllDead ==
    last.op = "reset_game_button" =>
        \A r \in PyRange(height) : \A c \in PyRange(width) :
            get_item(state, width, height, r, c) = Outcome("ok", {0})

\* a clear has been handled on a grid of more than one row and column
C10_Witness ==
    /\ last.op = "reset_game_button"
    /\ width > 1 /\ height > 1
    /\ state = PyGrid(width, height, 0)

----------------------------------------------------------------------------
\* The grid of the board's size whose Alive cells are exactly those of alive
PatternGrid(alive) ==
    [r \in PyRange(height) |->
        [c \in PyRange(width) |-> IF <<r, c>> \in alive THEN 1 ELSE 0]]

BlinkerAcross == PatternGrid({<<2, 1>>, <<2, 2>>, <<2, 3>>})
BlinkerDown == PatternGrid({<<1, 2>>, <<2, 2>>, <<3, 2>>})
Block == PatternGrid({<<1, 1>>, <<1, 2>>, <<2, 1>>, <<2, 2>>})

\* the loops of a step are through and its return is next
StepAboutToReturn == pc = "next_state" /\ ~(i < height)

\* C11: on a grid of at least 5 x 5 holding exactly the blinker (2,1),
\* (2,2), (2,3), one step leaves exactly (1,2), (2,2), (3,2) Alive and the
\* step after that leaves exactly the first three again.
C11_BlinkerHasPeriod2 ==
    [][ReturnsFromStep /\ width >= 5 /\ height >= 5 =>
        /\ state = BlinkerAcross => state' = BlinkerDown
        /\ state = BlinkerDown => state' = BlinkerAcross]_vars

\* the second step of a blinker is about to return: the grid holds the
\* upright triplet and the buffer the level one
C11_Witness ==
    /\ StepAboutToReturn /\ width >= 5 /\ height >= 5
    /\ state = BlinkerDown /\ newState = BlinkerAcross

\* C12: on a grid of at least 4 x 4 holding exactly the block (1,1), (1,2),
\* (2,1), (2,2), the grid after a step is the grid before it.
C12_BlockIsStill ==
    [][ReturnsFromStep /\ width >= 4 /\ height >= 4 /\ state = Block =>
        state' = Block]_vars

\* a step of the block is about to return, on the smallest grid
C12_Witness ==
    /\ StepAboutToReturn /\ width = 4 /\ height = 4
    /\ state = Block /\ newState = Block

\* C13: an Alive cell with no Alive neighbour, at any position of any board,
\* is Dead after one step.
C13_LoneCellDies ==
    [][ReturnsFromStep =>
        \A rc \in GridCells :
            state[rc[1]][rc[2]] = 1 /\ AliveAround(state, rc[1], rc[2]) = 0
                => state'[rc[1]][rc[2]] = 0]_vars

\* a step is about to return on a 3 x 3 grid with a lone Alive cell in the
\* corner (0,0) and another on the edge, both Dead in the buffer
C13_Witness ==
    /\ StepAboutToReturn /\ width = 3 /\ height = 3
    /\ state[0][0] = 1 /\ AliveAround(state, 0, 0) = 0 /\ newState[0][0] = 0
    /\ state[2][1] = 1 /\ AliveAround(state, 2, 1) = 0 /\ newState[2][1] = 0

\* the grid has height rows of width cells each
HasShape(s, w, h) ==
    /\ DOMAIN s = PyRange(h)
    /\ \A r \in DOMAIN s : DOMAIN s[r] = PyRange(w)

\* C15: a board created with positive width and height has height rows of
\* width cells, all Dead; whatever is called on it afterwards (set_item,
\* randomize_board, next_state; clear is set_item on every cell), the grid
\* keeps height rows of width cells and width and height keep their values.
C15_ShapeIsFixed ==
    [][/\ pc' # "start" /\ width' > 0 /\ height' > 0 =>
            HasShape(state', width', height')
       /\ pc = "start" /\ pc' # "start" /\ width' > 0 /\ height' > 0 =>
            \A r \in PyRange(height') : \A c \in PyRange(width') :
                state'[r][c] = 0
       /\ pc # "start" => width' = width /\ height' = height]_vars

\* a board wider than high, back from a step on a randomized grid
C15_Witness ==
    /\ pc = "idle" /\ last.op = "next_state"
    /\ width = 3 /\ height = 2
    /\ HasShape(state, 3, 2)
    /\ \E rc \in GridCells : state[rc[1]][rc[2]] = 1

\* C16: on a board of positive size, count_alive_neighbors at a position
\* outside the grid (row = height and col = width included) fails with the assertion error 'List index out
\* of bounds' and returns no count.
C16_CountOutsideGridFails ==
    (HasCells(width, height) /\ last.op = "count_alive_neighbors"
     /\ ~InGrid(last.row, last.col)) =>
        last.outcome = "AssertionError" /\ last.ret = {}

\* C17: Randomize and Clear, pressed in any state, leave the game paused and
\* the pause button reading 'Play'; once paused, the game stays paused and
\* no timer tick changes the grid until the pause button is pressed.
C17_RandomizeAndClearPause ==
    [][/\ IsCall("randomize_game_button") \/ IsCall("reset_game_button") =>
            game_paused' /\ pause_play_text' = "Play"
       /\ pc = "idle" /\ game_paused /\ last'.op # "pause_game_button" =>
            game_paused'
       /\ game_paused /\ IsCall("update") => state' = state]_vars

\* Randomize has been handled: the game is paused, the button reads
\* 'Play', and the grid is one that a step would change
C17_Witness ==
    /\ pc = "idle" /\ last.op = "randomize_game_button"
    /\ game_paused /\ pause_play_text = "Play"
    /\ NextGeneration(state) # state

\* C18: after any pause/play, Randomize and Clear presses, speed changes and
\* timer ticks, the pause button reads 'Play' exactly when the game is
\* paused and 'Pause' exactly when it runs.
C18_ButtonTextTellsPaused ==
    pc = "idle" =>
        /\ pause_play_text = "Play" <=> game_paused
        /\ pause_play_text = "Pause" <=> ~game_paused

\* the game runs at another speed than 1x and a tick has been handled
C18_Witness ==
    /\ pc = "idle" /\ last.op = "update"
    /\ ~game_paused /\ pause_play_text = "Pause"
    /\ speed # 2 /\ interval = TimerInterval(speed)

\* C19: after each timer tick the interval of the timer is 800 / speed ms,
\* for every speed of the menu (speed is held in halves: 1600 / halves).
C19_IntervalIs800OverSpeed ==
    last.op = "update" => interval = 1600 \div speed

====
